---- MODULE Spec2Model ----
(***************************************************************************)
(* crust: a cut-style column extractor (src/src/main.rs).                  *)
(*                                                                         *)
(* A String is a sequence of one-character strings.  A u32 is a pair of    *)
(* 16-bit halves [hi, lo], so that 2^32 - 1 and the wrap of 0 - 1 are      *)
(* representable.  A call that can panic yields [ok, val, panic].          *)
(***************************************************************************)
EXTENDS Naturals, Sequences, FiniteSets

VARIABLES pc, args, files, overflow_checks, options, filename, fields,
          delimiter, source_read, data, result, out, panic

vars == <<pc, args, files, overflow_checks, options, filename, fields,
          delimiter, source_read, data, result, out, panic>>

(***************************************************************************)
(* Bounds of the model                                                     *)
(***************************************************************************)
MaxArgs == 3
MaxCols == 2
MaxRows == 2
MaxIdx == 3
MaxCells == 3
MaxTextLen == 4

(***************************************************************************)
(* Characters and strings                                                  *)
(***************************************************************************)
NL == "\n"
CR == "\r"
TAB == "\t"

Min(S) == CHOOSE m \in S : \A n \in S : m <= n

RECURSIVE Concat(_)
Concat(ss) == IF ss = <<>> THEN <<>> ELSE Head(ss) \o Concat(Tail(ss))

MatchAt(s, p, i) == i + Len(p) - 1 <= Len(s) /\ SubSeq(s, i, i + Len(p) - 1) = p

starts_with(s, p) == MatchAt(s, p, 1)

contains(s, p) == \E i \in 1..(Len(s) + 1) : MatchAt(s, p, i)

strip_prefix(s, p) == SubSeq(s, Len(p) + 1, Len(s))

\* str::split on a non-empty needle: leftmost, non-overlapping matches; the
\* piece after the last match is yielded even when it is empty.
RECURSIVE SplitFrom(_, _, _, _)
SplitFrom(s, d, start, pos) ==
    IF pos + Len(d) - 1 > Len(s) THEN << SubSeq(s, start, Len(s)) >>
    ELSE IF MatchAt(s, d, pos)
         THEN << SubSeq(s, start, pos - 1) >>
              \o SplitFrom(s, d, pos + Len(d), pos + Len(d))
         ELSE SplitFrom(s, d, start, pos + 1)

\* str::split on the empty needle: a match at every character boundary.
SplitEmptyNeedle(s) == << <<>> >> \o [i \in 1..Len(s) |-> << s[i] >>] \o << <<>> >>

split(s, d) == IF d = <<>> THEN SplitEmptyNeedle(s) ELSE SplitFrom(s, d, 1, 1)

\* the closure of str::lines: strip one "\n", then one "\r" before it
strip_line_ending(l) ==
    IF l # <<>> /\ l[Len(l)] = NL
    THEN LET m == SubSeq(l, 1, Len(l) - 1)
         IN  IF m # <<>> /\ m[Len(m)] = CR THEN SubSeq(m, 1, Len(m) - 1) ELSE m
    ELSE l

\* str::split_inclusive('\n'): pieces keep their terminator, no empty last piece
RECURSIVE SplitInclusive(_, _, _)
SplitInclusive(s, start, pos) ==
    IF pos > Len(s)
    THEN IF start > Len(s) THEN <<>> ELSE << SubSeq(s, start, Len(s)) >>
    ELSE IF s[pos] = NL
         THEN << SubSeq(s, start, pos) >> \o SplitInclusive(s, pos + 1, pos + 1)
         ELSE SplitInclusive(s, start, pos + 1)

lines(s) ==
    LET ps == SplitInclusive(s, 1, 1)
    IN  [i \in 1..Len(ps) |-> strip_line_ending(ps[i])]

(***************************************************************************)
(* u32                                                                     *)
(***************************************************************************)
Half == 2^16

U32(n) == [hi |-> n \div Half, lo |-> n % Half]

U32Max == [hi |-> Half - 1, lo |-> Half - 1]

\* 0 - 1 stays 0
saturating_sub1(y) ==
    IF y.lo > 0 THEN [hi |-> y.hi, lo |-> y.lo - 1]
    ELSE IF y.hi > 0 THEN [hi |-> y.hi - 1, lo |-> Half - 1]
    ELSE y

\* `y - 1` with overflow checks off (line 158)
wrapping_sub1(y) ==
    IF y.lo > 0 THEN [hi |-> y.hi, lo |-> y.lo - 1]
    ELSE IF y.hi > 0 THEN [hi |-> y.hi - 1, lo |-> Half - 1]
    ELSE U32Max

(***************************************************************************)
(* Outcomes of calls                                                       *)
(***************************************************************************)
NoPanic == [msg |-> "none", len |-> 0, index |-> U32(0)]

Ok(v) == [ok |-> TRUE, val |-> v, panic |-> NoPanic]

Panicked(m) == [ok |-> FALSE, val |-> <<>>, panic |-> [msg |-> m, len |-> 0, index |-> U32(0)]]

\* the panic of the slice index operator: "index out of bounds: the len is
\* {len} but the index is {index}"
IndexPanic(n, i) ==
    [ok |-> FALSE, val |-> <<>>,
     panic |-> [msg |-> "index out of bounds", len |-> n, index |-> i]]

(***************************************************************************)
(* parse_options (lines 15-45)                                             *)
(***************************************************************************)
Fields(v) == [tag |-> "Fields", nums |-> v, str |-> <<>>]
File(s) == [tag |-> "File", nums |-> <<>>, str |-> s]
Delimiter(s) == [tag |-> "Delimiter", nums |-> <<>>, str |-> s]

Digits == <<"0", "1", "2", "3", "4", "5", "6", "7", "8", "9">>

IsDigit(c) == \E n \in 1..10 : Digits[n] = c

DigitVal(c) == (CHOOSE n \in 1..10 : Digits[n] = c) - 1

\* the digit loop of u32::from_str: acc * 10 + digit, checked
RECURSIVE parse_digits(_, _, _)
parse_digits(s, k, acc) ==
    IF k > Len(s) THEN Ok(acc)
    ELSE IF ~IsDigit(s[k]) THEN Panicked("InvalidDigit")
    ELSE LET lo2 == acc.lo * 10 + DigitVal(s[k])
             hi2 == acc.hi * 10 + lo2 \div Half
         IN  IF hi2 >= Half THEN Panicked("PosOverflow")
             ELSE parse_digits(s, k + 1, [hi |-> hi2, lo |-> lo2 % Half])

\* x.parse::<u32>(): an optional "+", then at least one decimal digit
parse_u32(s) ==
    IF s = <<>> THEN Panicked("Empty")
    ELSE LET body == IF s[1] = "+" THEN Tail(s) ELSE s
         IN  IF body = <<>> THEN Panicked("InvalidDigit")
             ELSE parse_digits(body, 1, U32(0))

\* the body of the loop of parse_options for one argument
parse_arg(arg) ==
    IF starts_with(arg, <<"-", "f">>)
    THEN LET delim == IF contains(arg, <<" ">>) /\ ~contains(arg, <<",">>)
                      THEN <<" ">> ELSE <<",">>
             toks == split(strip_prefix(arg, <<"-", "f">>), delim)
             nums == [k \in 1..Len(toks) |-> parse_u32(toks[k])]
         IN  IF \E k \in 1..Len(toks) : ~nums[k].ok
             THEN Panicked("Invalid field specified")
             ELSE Ok(Fields([k \in 1..Len(toks) |-> nums[k].val]))
    ELSE IF starts_with(arg, <<"-", "d">>)
    THEN Ok(Delimiter(strip_prefix(arg, <<"-", "d">>)))
    ELSE Ok(File(arg))

parse_options(as) ==
    LET rs == [k \in 1..Len(as) |-> parse_arg(as[k])]
    IN  IF \E k \in 1..Len(as) : ~rs[k].ok
        THEN rs[Min({k \in 1..Len(as) : ~rs[k].ok})]
        ELSE Ok([k \in 1..Len(as) |-> rs[k].val])

(***************************************************************************)
(* Table (lines 47-97)                                                     *)
(***************************************************************************)
Table(c, r, d) == [columns |-> c, rows |-> r, delimiter |-> d]

Table_default == Table(<<>>, <<>>, <<TAB>>)

\* `v[*index as usize]`: in range iff index < v.len()
InRange(v, index) == index.hi = 0 /\ index.lo < Len(v)

\* leaves out an index that is out of range instead of failing on it
RECURSIVE in_range_only(_, _, _)
in_range_only(v, indices, k) ==
    IF k > Len(indices) THEN <<>>
    ELSE (IF InRange(v, indices[k]) THEN <<v[indices[k].lo + 1]>> ELSE <<>>)
         \o in_range_only(v, indices, k + 1)

select_skipping(v, indices) == Ok(in_range_only(v, indices, 1))

\* selects each index once
RECURSIVE first_occurrences(_, _)
first_occurrences(indices, k) ==
    IF k > Len(indices) THEN <<>>
    ELSE (IF \E m \in 1..(k - 1) : indices[m] = indices[k] THEN <<>> ELSE <<indices[k]>>)
         \o first_occurrences(indices, k + 1)

select_dedup(v, indices) ==
    LET once == first_occurrences(indices, 1)
        bad == {k \in 1..Len(once) : ~InRange(v, once[k])}
    IN  IF bad # {}
        THEN IndexPanic(Len(v), once[Min(bad)])
        ELSE Ok([k \in 1..Len(once) |-> v[once[k].lo + 1]])

\* one `for index in &indices { .. push(v[*index as usize].clone()) }` loop
\* (lines 73-75, 79-81): the selected values, or the panic of the first
\* index out of range
select(v, indices) ==
    LET bad == {k \in 1..Len(indices) : ~InRange(v, indices[k])}
    IN  IF bad # {}
        THEN IndexPanic(Len(v), indices[Min(bad)])
        ELSE Ok([k \in 1..Len(indices) |-> v[indices[k].lo + 1]])

\* clones the whole row instead of the selected fields
get_cols_clone_rows(self, indices) ==
    LET cols == select(self.columns, indices)
    IN  IF ~cols.ok THEN cols
        ELSE Ok([Table_default EXCEPT !.delimiter = self.delimiter,
                                      !.columns = cols.val,
                                      !.rows = self.rows])

\* skips a row that lacks a requested field instead of failing on it
RECURSIVE kept_rows(_, _, _)
kept_rows(rows, indices, j) ==
    IF j > Len(rows) THEN <<>>
    ELSE (IF select(rows[j], indices).ok THEN <<select(rows[j], indices).val>> ELSE <<>>)
         \o kept_rows(rows, indices, j + 1)

get_cols_drop_short_rows(self, indices) ==
    LET cols == select(self.columns, indices)
    IN  IF ~cols.ok THEN cols
        ELSE Ok([Table_default EXCEPT !.delimiter = self.delimiter,
                                      !.columns = cols.val,
                                      !.rows = kept_rows(self.rows, indices, 1)])

\* line 72 left out: the result keeps the default delimiter
get_cols_default_delimiter(self, indices) ==
    LET cols == select(self.columns, indices)
        rs == [j \in 1..Len(self.rows) |-> select(self.rows[j], indices)]
        bad == {j \in 1..Len(self.rows) : ~rs[j].ok}
    IN  IF ~cols.ok THEN cols
        ELSE IF bad # {} THEN rs[Min(bad)]
        ELSE Ok([Table_default EXCEPT !.columns = cols.val,
                                      !.rows = [j \in 1..Len(self.rows) |-> rs[j].val]])

\* lines 70-86: the header loop, then the loop over the rows; the first
\* index out of range panics and nothing is returned
get_cols(self, indices) ==
    LET cols == select(self.columns, indices)
        rs == [j \in 1..Len(self.rows) |-> select(self.rows[j], indices)]
        bad == {j \in 1..Len(self.rows) : ~rs[j].ok}
    IN  IF ~cols.ok THEN cols
        ELSE IF bad # {} THEN rs[Min(bad)]
        ELSE Ok([Table_default EXCEPT !.delimiter = self.delimiter,
                                      !.columns = cols.val,
                                      !.rows = [j \in 1..Len(self.rows) |-> rs[j].val]])

(***************************************************************************)
(* Display for Table (lines 99-124)                                        *)
(***************************************************************************)
\* prints the delimiter after every value, the last one included
RECURSIVE print_vals_trailing(_, _, _)
print_vals_trailing(vals, d, k) ==
    IF k > Len(vals) THEN <<>>
    ELSE vals[k] \o d \o print_vals_trailing(vals, d, k + 1)

\* `while let Some(val) = vals.next() { print!(val); if peek is some
\* { print!(delimiter) } }`
RECURSIVE print_vals(_, _, _)
print_vals(vals, d, k) ==
    IF k > Len(vals) THEN <<>>
    ELSE vals[k] \o (IF k < Len(vals) THEN d ELSE <<>>) \o print_vals(vals, d, k + 1)

\* the loop over the rows: a "\n" is printed after every row but the last
RECURSIVE print_rows(_, _, _)
print_rows(rows, d, j) ==
    IF j > Len(rows) THEN <<>>
    ELSE print_vals(rows[j], d, 1) \o (IF j < Len(rows) THEN <<NL>> ELSE <<>>)
         \o print_rows(rows, d, j + 1)

\* the writes of fmt in program order; the header and the rows go to the
\* process's stdout (print!), the header's newline to the formatter f
fmt(self) ==
    << [sink |-> "stdout", text |-> print_vals(self.columns, self.delimiter, 1)],
       [sink |-> "f", text |-> <<NL>>],
       [sink |-> "stdout", text |-> print_rows(self.rows, self.delimiter, 1)] >>

\* what reaches stdout when the formatter writes to stdout, as under
\* println! (line 170)
display(self) ==
    LET ws == fmt(self) IN Concat([k \in 1..Len(ws) |-> ws[k].text])

(***************************************************************************)
(* parse_tsv (lines 126-146)                                               *)
(***************************************************************************)
\* without the skip(1) of line 140: the peeked header is read again as a row
parse_tsv_no_skip(fs, name, delim) ==
    IF name \notin DOMAIN fs THEN Panicked("Couldn't read file")
    ELSE LET ls == lines(fs[name])
         IN  IF ls = <<>> THEN Panicked("Lines should not be empty")
             ELSE Ok([Table_default EXCEPT
                        !.delimiter = delim,
                        !.columns = split(ls[1], delim),
                        !.rows = [i \in 1..Len(ls) |-> split(ls[i], delim)]])

\* fs maps the names of the readable files to their contents; peek() reads
\* the first line without consuming it, skip(1) then passes over it
parse_tsv(fs, name, delim) ==
    IF name \notin DOMAIN fs THEN Panicked("Couldn't read file")
    ELSE LET ls == lines(fs[name])
         IN  IF ls = <<>> THEN Panicked("Lines should not be empty")
             ELSE Ok([Table_default EXCEPT
                        !.delimiter = delim,
                        !.columns = split(ls[1], delim),
                        !.rows = [i \in 1..(Len(ls) - 1) |-> split(ls[i + 1], delim)]])

(***************************************************************************)
(* main (lines 148-171), one action per call it makes                      *)
(***************************************************************************)
None == [some |-> FALSE, val |-> <<>>]
Some(v) == [some |-> TRUE, val |-> v]

\* the loop over the options (lines 155-161); `y - 1` panics on 0 in a build
\* with overflow checks and wraps otherwise
RECURSIVE resolve(_, _, _, _)
resolve(opts, k, acc, checks) ==
    IF k > Len(opts) THEN Ok(acc)
    ELSE LET o == opts[k]
         IN  IF o.tag = "File"
             THEN resolve(opts, k + 1, [acc EXCEPT !.filename = Some(o.str)], checks)
             ELSE IF o.tag = "Fields"
             THEN IF checks /\ \E i \in 1..Len(o.nums) : o.nums[i] = U32(0)
                  THEN Panicked("attempt to subtract with overflow")
                  ELSE resolve(opts, k + 1,
                               [acc EXCEPT !.fields =
                                   [i \in 1..Len(o.nums) |-> wrapping_sub1(o.nums[i])]],
                               checks)
             ELSE resolve(opts, k + 1, [acc EXCEPT !.delimiter = o.str], checks)

Abort(p) ==
    /\ pc' = "panicked"
    /\ panic' = p

\* line 150
main_parse_options ==
    /\ pc = "start"
    /\ LET r == parse_options(args)
       IN  IF r.ok
           THEN /\ options' = r.val
                /\ pc' = "resolve"
                /\ panic' = panic
           ELSE /\ Abort(r.panic)
                /\ options' = options
    /\ UNCHANGED <<args, files, overflow_checks, filename, fields, delimiter,
                   source_read, data, result, out>>

\* lines 152-165
main_resolve ==
    /\ pc = "resolve"
    /\ LET r == resolve(options, 1,
                        [filename |-> None, fields |-> <<>>, delimiter |-> <<TAB>>],
                        overflow_checks)
       IN  IF ~r.ok
           THEN /\ Abort(r.panic)
                /\ UNCHANGED <<filename, fields, delimiter>>
           ELSE /\ filename' = r.val.filename
                /\ fields' = r.val.fields
                /\ delimiter' = r.val.delimiter
                /\ IF r.val.filename.some
                   THEN pc' = "parse" /\ panic' = panic
                   ELSE Abort(Panicked("No filename specified").panic)
    /\ UNCHANGED <<args, files, overflow_checks, options, source_read, data,
                   result, out>>

\* line 167
main_parse_tsv ==
    /\ pc = "parse"
    /\ source_read' = TRUE
    /\ LET r == parse_tsv(files, filename.val, delimiter)
       IN  IF r.ok
           THEN /\ data' = Some(r.val)
                /\ pc' = "project"
                /\ panic' = panic
           ELSE /\ Abort(r.panic)
                /\ data' = data
    /\ UNCHANGED <<args, files, overflow_checks, options, filename, fields,
                   delimiter, result, out>>

\* prints the header as it is selected, before the rows are
main_get_cols_streaming ==
    /\ pc = "project"
    /\ LET r == get_cols(data.val, fields)
           h == select(data.val.columns, fields)
       IN  /\ out' = IF h.ok THEN out \o print_vals(h.val, delimiter, 1) ELSE out
           /\ IF r.ok
              THEN /\ result' = Some(r.val)
                   /\ pc' = "print"
                   /\ panic' = panic
              ELSE /\ Abort(r.panic)
                   /\ result' = result
    /\ UNCHANGED <<args, files, overflow_checks, options, filename, fields,
                   delimiter, source_read, data>>

\* line 169
main_get_cols ==
    /\ pc = "project"
    /\ LET r == get_cols(data.val, fields)
       IN  IF r.ok
           THEN /\ result' = Some(r.val)
                /\ pc' = "print"
                /\ panic' = panic
           ELSE /\ Abort(r.panic)
                /\ result' = result
    /\ UNCHANGED <<args, files, overflow_checks, options, filename, fields,
                   delimiter, source_read, data, out>>

\* line 170: println!("{}", result)
main_println ==
    /\ pc = "print"
    /\ out' = out \o display(result.val) \o <<NL>>
    /\ pc' = "done"
    /\ UNCHANGED <<args, files, overflow_checks, options, filename, fields,
                   delimiter, source_read, data, result, panic>>

\* Display::fmt on its own, the formatter writing to stdout and stdout
\* captured as the file the parser reads next
Display_fmt ==
    /\ pc = "fmt"
    /\ out' = display(result.val)
    /\ files' = [n \in {filename.val} |-> display(result.val)]
    /\ pc' = "parse"
    /\ UNCHANGED <<args, overflow_checks, options, filename, fields, delimiter,
                   source_read, data, result, panic>>

(***************************************************************************)
(* Inputs                                                                  *)
(***************************************************************************)
SeqsUpTo(S, n) == UNION {[1..m -> S] : m \in 0..n}

FileName == <<"f">>

ArgPool ==
    { <<"-", "f", "1">>,
      <<"-", "f", "2", ",", "1">>,
      <<"-", "f", "1", " ", "2">>,
      <<"-", "f", "0">>,
      <<"-", "f", "3">>,
      <<"-", "f", "x">>,
      <<"-", "d", ",">>,
      FileName,
      <<"m">> }

ContentPool ==
    { <<>>,
      <<"a", ",", "b">>,
      <<"a", ",", "b", NL, "1", ",", "2", NL>>,
      <<"a", TAB, "b", NL, "1", TAB, "2">>,
      <<"a", ",", "b", NL, "1">> }

DelimPool == { <<",">>, <<",", ",">>, <<>>, <<NL>> }

TextChars == {"a", ",", NL, CR}

FieldPool == { <<>>, <<"a">>, <<",">>, <<NL>>, <<CR>> }

\* tables for the projector: the cell at row j, column k is named after its
\* position, every row has its own width (up to one more than the header)
HeaderCell(k) == <<"f", Digits[k]>>
Cell(j, k) == <<"r", Digits[j], "c", Digits[k]>>

ShapedTable(n, w, d) ==
    Table([k \in 1..n |-> HeaderCell(k)],
          [j \in 1..Len(w) |-> [k \in 1..w[j] |-> Cell(j, k)]],
          d)

ProjTables ==
    { ShapedTable(n, w, d) : n \in 0..MaxCols,
                             w \in SeqsUpTo(0..(MaxCols + 1), MaxRows),
                             d \in {<<TAB>>, <<",">>} }

IndexLists == SeqsUpTo({U32(i) : i \in 0..MaxCols}, MaxIdx)

\* tables for the renderer: the header and at most MaxRows rows, of any
\* widths, holding at most MaxCells fields of FieldPool between them; w lists
\* the widths, header first, and cells the fields in reading order
RECURSIVE Sum(_, _)
Sum(w, j) == IF j = 0 THEN 0 ELSE w[j] + Sum(w, j - 1)

TextShapes ==
    { w \in SeqsUpTo(0..MaxCells, MaxRows + 1) : Len(w) >= 1 /\ Sum(w, Len(w)) <= MaxCells }

CutTable(w, cells, d) ==
    LET line(j) == [k \in 1..w[j] |-> cells[Sum(w, j - 1) + k]]
    IN  Table(line(1), [j \in 1..(Len(w) - 1) |-> line(j + 1)], d)

Idle ==
    /\ options = <<>>
    /\ fields = <<>>
    /\ source_read = FALSE
    /\ out = <<>>
    /\ panic = NoPanic

(***************************************************************************)
(* Specifications                                                          *)
(***************************************************************************)
\* a run of the tool
Init ==
    /\ pc = "start"
    /\ args \in SeqsUpTo(ArgPool, MaxArgs)
    /\ files \in {[n \in {FileName} |-> c] : c \in ContentPool}
    /\ overflow_checks \in BOOLEAN
    /\ filename = None
    /\ delimiter = <<TAB>>
    /\ data = None
    /\ result = None
    /\ Idle

Next ==
    \/ main_parse_options
    \/ main_resolve
    \/ main_parse_tsv
    \/ main_get_cols
    \/ main_println

Spec == Init /\ [][Next]_vars

\* the projector and the print of its result, on any table and index list
InitProject ==
    /\ pc = "project"
    /\ args = <<>>
    /\ files = [n \in {FileName} |-> <<>>]
    /\ overflow_checks = FALSE
    /\ filename = Some(FileName)
    /\ \E t \in ProjTables : data = Some(t) /\ delimiter = t.delimiter
    /\ result = None
    /\ options = <<>>
    /\ fields \in IndexLists
    /\ source_read = TRUE
    /\ out = <<>>
    /\ panic = NoPanic

NextProject ==
    \/ main_get_cols
    \/ main_println

SpecProject == InitProject /\ [][NextProject]_vars

\* the parser on any text
InitParse ==
    /\ pc = "parse"
    /\ args = <<>>
    /\ files \in {[n \in {FileName} |-> c] : c \in SeqsUpTo(TextChars, MaxTextLen)}
    /\ overflow_checks = FALSE
    /\ filename = Some(FileName)
    /\ delimiter \in DelimPool
    /\ data = None
    /\ result = None
    /\ Idle

NextParse == main_parse_tsv

SpecParse == InitParse /\ [][NextParse]_vars

\* the renderer on any table, and the parser on what it wrote
InitText ==
    /\ pc = "fmt"
    /\ args = <<>>
    /\ files = [n \in {FileName} |-> <<>>]
    /\ overflow_checks = FALSE
    /\ filename = Some(FileName)
    /\ \E w \in TextShapes :
           \E cells \in [1..Sum(w, Len(w)) -> FieldPool] :
               \E d \in DelimPool :
                   /\ result = Some(CutTable(w, cells, d))
                   /\ delimiter = d
    /\ data = None
    /\ Idle

NextText ==
    \/ Display_fmt
    \/ main_parse_tsv

SpecText == InitText /\ [][NextText]_vars

(***************************************************************************)
(* Properties                                                              *)
(***************************************************************************)
\* i >= n, for a u32 i and a length n
AtLeast(i, n) == i.hi > 0 \/ i.lo >= n

called_get_cols == pc \in {"print", "done", "panicked"}

returned_get_cols == pc \in {"print", "done"}

\* C1: when some index of the list, at any position, is at or beyond the
\* header width, get_cols fails with an index-out-of-range panic and no
\* table, partial or whole, is returned or printed.
C1_IndexValidation ==
    (called_get_cols /\ \E k \in 1..Len(fields) : AtLeast(fields[k], Len(data.val.columns)))
        => /\ pc = "panicked"
           /\ panic.msg = "index out of bounds"
           /\ ~result.some
           /\ out = <<>>

\* an out-of-range index that follows an index in range
C1_Witness ==
    /\ pc = "panicked"
    /\ Len(fields) >= 2
    /\ ~AtLeast(fields[1], Len(data.val.columns))
    /\ AtLeast(fields[2], Len(data.val.columns))

\* C2: a table returned by get_cols is positional: column k is the input's
\* column indices[k], the rows are the input's rows in the same number and
\* order, and field k of row j is the input's field indices[k] of row j.
C2_Positional ==
    returned_get_cols =>
        /\ Len(result.val.columns) = Len(fields)
        /\ \A k \in 1..Len(fields) :
               result.val.columns[k] = data.val.columns[fields[k].lo + 1]
        /\ Len(result.val.rows) = Len(data.val.rows)
        /\ \A j \in 1..Len(data.val.rows) :
               /\ Len(result.val.rows[j]) = Len(fields)
               /\ \A k \in 1..Len(fields) :
                      result.val.rows[j][k] = data.val.rows[j][fields[k].lo + 1]

\* an unsorted index list with a repeat, on a table of two rows
C2_Witness ==
    /\ pc = "print"
    /\ fields = <<U32(1), U32(0), U32(0)>>
    /\ Len(data.val.rows) = 2
    /\ result.val.columns = <<HeaderCell(2), HeaderCell(1), HeaderCell(1)>>

\* C5: when every index is within the header width and some row has no
\* field at a requested index, get_cols fails and returns no table.
RaggedAt ==
    /\ \A k \in 1..Len(fields) : ~AtLeast(fields[k], Len(data.val.columns))
    /\ \E j \in 1..Len(data.val.rows) :
           \E k \in 1..Len(fields) : AtLeast(fields[k], Len(data.val.rows[j]))

C5_RaggedRowFails ==
    (called_get_cols /\ RaggedAt)
        => /\ pc = "panicked"
           /\ panic.msg = "index out of bounds"
           /\ ~result.some
           /\ out = <<>>

\* the second row is the short one
C5_Witness ==
    /\ pc = "panicked"
    /\ RaggedAt
    /\ Len(data.val.rows) = 2
    /\ \A k \in 1..Len(fields) : ~AtLeast(fields[k], Len(data.val.rows[1]))

\* C6 as stated: selecting every column in order returns the input table,
\* for every table.
AllColumns == fields = [k \in 1..Len(data.val.columns) |-> U32(k - 1)]

C6_IdentityAnyTable ==
    (called_get_cols /\ AllColumns) => (returned_get_cols /\ result.val = data.val)

\* C6, amended: for every table each of whose rows has exactly as many
\* fields as the header, selecting every column in order returns a table
\* with the same columns, rows and delimiter.
Rectangular(t) == \A j \in 1..Len(t.rows) : Len(t.rows[j]) = Len(t.columns)

C6_IdentityRectangular ==
    (called_get_cols /\ AllColumns /\ Rectangular(data.val))
        => (returned_get_cols /\ result.val = data.val)

C6_Witness ==
    /\ pc = "print"
    /\ AllColumns
    /\ Rectangular(data.val)
    /\ Len(data.val.columns) = 2
    /\ Len(data.val.rows) = 2
    /\ data.val.delimiter = <<",">>

\* C9: in a table returned by get_cols the header and every row have as
\* many fields as the index list, whatever the shape of the input.
C9_Rectangular ==
    returned_get_cols =>
        /\ Len(result.val.columns) = Len(fields)
        /\ \A j \in 1..Len(result.val.rows) :
               Len(result.val.rows[j]) = Len(result.val.columns)

\* an input row wider than the header
C9_Witness ==
    /\ pc = "print"
    /\ Len(fields) >= 1
    /\ \E j \in 1..Len(data.val.rows) :
           Len(data.val.rows[j]) > Len(data.val.columns)

RECURSIVE JoinWith(_, _)
JoinWith(ss, sep) ==
    IF ss = <<>> THEN <<>>
    ELSE IF Len(ss) = 1 THEN ss[1]
    ELSE ss[1] \o sep \o JoinWith(Tail(ss), sep)

rendered == pc \in {"parse", "project", "panicked"}

\* C4: the text written for a table is its 1 + rows.len() lines, the header
\* and each row joined by the delimiter, with one newline between
\* consecutive lines and none after the last.
C4_RenderLines ==
    rendered =>
        out = JoinWith(<<JoinWith(result.val.columns, result.val.delimiter)>>
                       \o [j \in 1..Len(result.val.rows) |->
                              JoinWith(result.val.rows[j], result.val.delimiter)],
                       <<NL>>)

reparsed == pc \in {"project", "panicked"}

Same == /\ pc = "project"
        /\ data.val.columns = result.val.columns
        /\ data.val.rows = result.val.rows

AllFields(t) ==
    {t.columns[k] : k \in 1..Len(t.columns)}
        \cup UNION {{t.rows[j][k] : k \in 1..Len(t.rows[j])} : j \in 1..Len(t.rows)}

\* C3 as stated: when no field of the table equals the delimiter (a
\* non-empty string), parsing the rendered text gives back the columns and
\* rows.
C3_RoundTripNoFieldIsDelimiter ==
    (/\ reparsed
     /\ result.val.delimiter # <<>>
     /\ \A f \in AllFields(result.val) : f # result.val.delimiter) => Same

\* C3, amended: parsing the rendered text gives back the columns and rows
\* when the delimiter is non-empty, the header and every row have at least
\* one field, no field holds a character of the delimiter, neither a field
\* nor the delimiter holds a "\n" or "\r", and the last row is not a single
\* empty field.
CharsOf(str) == {str[i] : i \in 1..Len(str)}

Renderable(t) ==
    /\ t.delimiter # <<>>
    /\ Len(t.columns) >= 1
    /\ \A j \in 1..Len(t.rows) : Len(t.rows[j]) >= 1
    /\ \A f \in AllFields(t) : CharsOf(f) \cap (CharsOf(t.delimiter) \cup {NL, CR}) = {}
    /\ CharsOf(t.delimiter) \cap {NL, CR} = {}
    /\ t.rows # <<>> => t.rows[Len(t.rows)] # << <<>> >>

C3_RoundTripRenderable ==
    (reparsed /\ Renderable(result.val)) => Same

\* a header of two fields, one of them empty, and a row
C3_Witness ==
    /\ pc = "project"
    /\ Renderable(result.val)
    /\ Len(result.val.columns) = 2
    /\ result.val.columns[1] = <<>>
    /\ Len(result.val.rows) = 1

\* C7: for a text of n >= 1 lines and a non-empty delimiter, the columns
\* are the fields of line 1 and the rows are lines 2..n in order, each line
\* cut at the leftmost non-overlapping occurrences of the delimiter (so the
\* fields joined by the delimiter give the line back and no field holds the
\* delimiter), whatever the number of fields of a line.
raw == files[FileName]

LineCount(s) ==
    Cardinality({i \in 1..Len(s) : s[i] = NL})
        + (IF s # <<>> /\ s[Len(s)] # NL THEN 1 ELSE 0)

FieldsOf(fs, line, d) ==
    /\ JoinWith(fs, d) = line
    /\ Len(fs) >= 1
    /\ \A k \in 1..Len(fs) : ~contains(fs[k], d)

C7_ParseLines ==
    (pc # "parse" /\ LineCount(raw) >= 1 /\ delimiter # <<>>)
        => /\ pc = "project"
           /\ Len(lines(raw)) = LineCount(raw)
           /\ FieldsOf(data.val.columns, lines(raw)[1], delimiter)
           /\ Len(data.val.rows) = LineCount(raw) - 1
           /\ \A i \in 1..Len(data.val.rows) :
                  FieldsOf(data.val.rows[i], lines(raw)[i + 1], delimiter)

\* a header with an empty field and a row of another width
C7_Witness ==
    /\ pc = "project"
    /\ delimiter = <<",">>
    /\ Len(data.val.columns) = 2
    /\ data.val.columns[1] = <<>>
    /\ Len(data.val.rows) = 1
    /\ Len(data.val.rows[1]) = 1

\* C8: nothing is written to the output until get_cols has returned a
\* table; a run that panics has written nothing; a run given a field token
\* that is no integer panics without having read or parsed the source.
InvalidFieldToken == \E k \in 1..Len(args) : ~parse_arg(args[k]).ok

C8_NoPartialOutput ==
    /\ out # <<>> => (pc = "done" /\ result.some)
    /\ pc = "panicked" => (out = <<>> /\ ~result.some)
    /\ InvalidFieldToken
           => (pc \in {"start", "panicked"} /\ ~source_read /\ ~data.some /\ out = <<>>)
    /\ pc = "done" => out # <<>>

\* the projection fails after the source was parsed
C8_Witness ==
    /\ pc = "panicked"
    /\ panic.msg = "index out of bounds"
    /\ data.some
    /\ source_read

\* the field lists of the -f options of the command line, in order
FieldLists ==
    LET rs == [k \in 1..Len(args) |-> parse_arg(args[k])]
        fs == SelectSeq(rs, LAMBDA r : r.ok /\ r.val.tag = "Fields")
    IN  [k \in 1..Len(fs) |-> fs[k].val.nums]

HasZero(nums) == \E i \in 1..Len(nums) : nums[i] = U32(0)

Last(ss) == IF ss = <<>> THEN <<>> ELSE ss[Len(ss)]

\* fields holds u - 1 for every requested u >= 1, and 2^32 - 1 for a 0
Converted(requested) ==
    /\ Len(fields) = Len(requested)
    /\ \A i \in 1..Len(fields) :
           IF requested[i] = U32(0) THEN fields[i] = U32Max
           ELSE IF requested[i].lo > 0
                THEN fields[i] = [hi |-> requested[i].hi, lo |-> requested[i].lo - 1]
                ELSE fields[i] = [hi |-> requested[i].hi - 1, lo |-> Half - 1]

\* C10 as stated: a run given a field index 0 fails without emitting a
\* table, and the projector receives u - 1 for every index u >= 1.
C10_ZeroAlwaysFails ==
    LET fl == FieldLists
    IN  /\ (\E k \in 1..Len(fl) : HasZero(fl[k]))
               => (pc \notin {"print", "done"} /\ out = <<>> /\ ~result.some)
        /\ pc \in {"project", "print", "done"} => Converted(Last(fl))

\* C10, amended: a run whose last -f option holds a field index 0 fails
\* without emitting a table (a 0 in an earlier -f option aborts the run only
\* where the subtraction is checked); the projector receives u - 1 for every
\* index u >= 1 of the last -f option, in order, and 2^32 - 1 for a 0.
C10_ZeroInEffectFails ==
    LET fl == FieldLists
    IN  /\ HasZero(Last(fl))
               => (pc \notin {"print", "done"} /\ out = <<>> /\ ~result.some)
        /\ (overflow_checks /\ \E k \in 1..Len(fl) : HasZero(fl[k]))
               => pc \in {"start", "resolve", "panicked"}
        /\ pc \in {"parse", "project", "print", "done"} => Converted(Last(fl))

\* the wrapped index reaches the projector, which rejects it
C10_Witness ==
    /\ pc = "panicked"
    /\ ~overflow_checks
    /\ panic.msg = "index out of bounds"
    /\ panic.index = U32Max
    /\ Last(FieldLists) = <<U32(0)>>

====
